---- MODULE Spec2Model ----
(***************************************************************************)
(* giri::FileSystem::ExecuteAsync (FileSystem.h): one call, its background *)
(* task, the child process behind popen(), the caller's string and future, *)
(* and the std::ostream the output is forwarded to.                        *)
(***************************************************************************)
EXTENDS Integers, Sequences

VARIABLES
    callerStr,   \* the caller's std::string bound to `cmd` (a command, or Destroyed)
    origCmd,     \* value of that string when ExecuteAsync was called (history)
    cpc,         \* caller: "init", "holding" (has the future), "got" (get() came back)
    valid,       \* std::future::valid() of the returned future
    outcome1,    \* what the first get() delivered
    outcome2,    \* what a second get() on the same future did
    waits,       \* number of std::future::wait() calls that have returned
    hstate,      \* shared state of the future: NoHandle, Pending, Completed, Failed
    hexc,        \* exception stored in the shared state
    tpc,         \* background task: "idle", "start", "read", "write", "unwind", "done"
    pendingExc,  \* exception in flight while the task's stack unwinds
    pipeH,       \* the unique_ptr<FILE>: "none", "null", "open", "closed"
    closeCount,  \* number of pclose() calls made
    spawnCount,  \* number of child processes created
    spawnedCmd,  \* the command string popen() handed to the interpreter
    buffer,      \* std::array<char,128> contents up to and including the terminator
    pipe,        \* bytes written by the child and not yet read
    emitted,     \* number of bytes the child has written to its stdout
    outClosed,   \* the child's stdout is closed (end-of-stream once pipe is drained)
    exited,      \* the child has terminated
    sink,        \* bytes held by the caller's std::ostream
    sink0        \* sink content before the call (history)

vars == <<callerStr, origCmd, cpc, valid, outcome1, outcome2, waits, hstate, hexc,
          tpc, pendingExc, pipeH, closeCount, spawnCount, spawnedCmd, buffer, pipe,
          emitted, outClosed, exited, sink, sink0>>

callerVars == <<cpc, valid, outcome1, outcome2, waits>>
taskVars == <<tpc, pendingExc, pipeH, closeCount, spawnCount, spawnedCmd, buffer>>
childVars == <<pipe, emitted, outClosed, exited>>

----------------------------------------------------------------------------
\* Bytes
NUL == 0
NL == 10
CH == 97

\* std::array<char, 128> buffer
BufSize == 128

\* Bounds of the model
MaxLines == 2    \* lines a text command prints
MaxOver == 1     \* longest line is BufSize - 1 + MaxOver characters plus newline
MaxRaw == 2      \* length of the raw byte strings a command prints
MaxWaits == 2    \* wait() calls the caller makes on the future

----------------------------------------------------------------------------
\* Commands: what the interpreter does with the string
\* "print": a program that prints lines of the given lengths, then raw bytes;
\* "missing": a name no program has, such as __not_a_real_binary__
Destroyed == [kind |-> "destroyed", lens |-> <<>>, raw |-> <<>>]
NoCmd == [kind |-> "none", lens |-> <<>>, raw |-> <<>>]
Missing == [kind |-> "missing", lens |-> <<>>, raw |-> <<>>]
PrintCmd(lens, raw) == [kind |-> "print", lens |-> lens, raw |-> raw]

\* line lengths (without the newline): empty, and around the buffer size
LineLens == {0} \cup ((BufSize - 2) .. (BufSize - 1 + MaxOver))

RECURSIVE SeqsUpTo(_, _)
SeqsUpTo(S, n) ==
    IF n = 0 THEN {<<>>}
    ELSE LET shorter == SeqsUpTo(S, n - 1)
         IN shorter \cup {Append(s, x) : s \in {t \in shorter : Len(t) = n - 1}, x \in S}

\* k lines of one length; raw bytes
TextCmds == {PrintCmd([i \in 1..k |-> n], <<>>) : k \in 0..MaxLines, n \in LineLens}
RawCmds == {PrintCmd(<<>>, r) : r \in SeqsUpTo({NUL, NL, CH}, MaxRaw)}
Commands == {Missing} \cup TextCmds \cup RawCmds

\* What the caller may overwrite its string with, and what a dangling
\* reference may read
ModCmds == {Missing, PrintCmd(<<>>, <<CH, NL>>)}

Line(n) == [i \in 1..(n + 1) |-> IF i = n + 1 THEN NL ELSE CH]

RECURSIVE Lines(_)
Lines(lens) == IF lens = <<>> THEN <<>> ELSE Line(Head(lens)) \o Lines(Tail(lens))

\* the command run with stderr merged into the pipe: the shell's complaint
\* about a missing program would be read as output
OutputMergedStderr(c) ==
    IF c.kind = "print" THEN Lines(c.lens) \o c.raw
    ELSE IF c.kind = "missing" THEN <<CH, NL>> ELSE <<>>

\* Bytes the spawned shell writes to stdout for a command; a program that
\* does not exist writes nothing there (the shell's complaint goes to stderr)
Output(c) == IF c.kind = "print" THEN Lines(c.lens) \o c.raw ELSE <<>>

\* Bytes the child has written so far, and those of them fgets has taken
Produced == SubSeq(Output(spawnedCmd), 1, emitted)
Consumed == SubSeq(Output(spawnedCmd), 1, emitted - Len(pipe))

NoNul(s) == \A i \in 1..Len(s) : s[i] # NUL

----------------------------------------------------------------------------
\* fgets(buffer.data(), buffer.size(), pipe.get())

\* position of the first newline among the first n bytes of p, 0 if none
FirstNL(p, n) ==
    LET idx == {i \in 1..n : i <= Len(p) /\ p[i] = NL}
    IN IF idx = {} THEN 0 ELSE CHOOSE i \in idx : \A j \in idx : i <= j

\* fgets can return: a newline or size-1 bytes are there, or end-of-stream
FgetsReady(p, closed) ==
    \/ FirstNL(p, BufSize - 1) > 0
    \/ Len(p) >= BufSize - 1
    \/ closed

\* bytes fgets takes from the stream
FgetsLen(p) ==
    LET nl == FirstNL(p, BufSize - 1)
    IN IF nl > 0 THEN nl
       ELSE IF Len(p) >= BufSize - 1 THEN BufSize - 1
       ELSE Len(p)

\* an off-by-one at the end of the buffer: the terminator lands on the last byte
FgetsDataOffByOne(p) ==
    IF FgetsLen(p) = BufSize - 1 THEN SubSeq(p, 1, BufSize - 2) ELSE SubSeq(p, 1, FgetsLen(p))

\* bytes fgets stores in the buffer, before the terminator
FgetsData(p) == SubSeq(p, 1, FgetsLen(p))

\* operator<<(std::ostream&, const char*): the bytes before the first NUL
CStr(b) ==
    LET idx == {i \in 1..Len(b) : b[i] = NUL}
        z == IF idx = {} THEN Len(b) + 1 ELSE CHOOSE i \in idx : \A j \in idx : i <= j
    IN SubSeq(b, 1, z - 1)

----------------------------------------------------------------------------
Init ==
    /\ callerStr \in Commands
    /\ origCmd = NoCmd
    /\ cpc = "init"
    /\ valid = FALSE
    /\ outcome1 = "none"
    /\ outcome2 = "none"
    /\ waits = 0
    /\ hstate = "NoHandle"
    /\ hexc = "none"
    /\ tpc = "idle"
    /\ pendingExc = "none"
    /\ pipeH = "none"
    /\ closeCount = 0
    /\ spawnCount = 0
    /\ spawnedCmd = NoCmd
    /\ buffer = <<>>
    /\ pipe = <<>>
    /\ emitted = 0
    /\ outClosed = FALSE
    /\ exited = FALSE
    /\ sink \in {<<>>, <<CH>>}
    /\ sink0 = sink

\* ExecuteAsync(cmd, ostr), lines 133-150: std::async starts the task, which
\* holds `cmd` and `ostr` by reference ([&]); the future is returned at once
ExecuteAsync ==
    /\ cpc = "init"
    /\ cpc' = "holding"
    /\ origCmd' = callerStr
    /\ valid' = TRUE
    /\ hstate' = "Pending"
    /\ tpc' = "start"
    /\ UNCHANGED <<callerStr, outcome1, outcome2, waits, hexc, pendingExc, pipeH,
                   closeCount, spawnCount, spawnedCmd, buffer, childVars, sink, sink0>>

\* The caller assigns to its string after ExecuteAsync has returned. The task
\* reads the string once, in popen(); writes after that read change nothing
\* and are left out.
ModifyStr ==
    /\ cpc # "init"
    /\ tpc = "start"
    /\ callerStr = origCmd
    /\ \E c \in ModCmds \ {callerStr} : callerStr' = c
    /\ UNCHANGED <<origCmd, callerVars, hstate, hexc, taskVars, childVars, sink, sink0>>

\* The caller's string goes out of scope (a temporary argument dies at the
\* end of the calling expression)
DestroyStr ==
    /\ cpc # "init"
    /\ tpc = "start"
    /\ callerStr # Destroyed
    /\ callerStr' = Destroyed
    /\ UNCHANGED <<origCmd, callerVars, hstate, hexc, taskVars, childVars, sink, sink0>>

\* cmd.c_str() as the task sees it through the captured reference; a dangling
\* reference reads whatever the freed storage holds
CmdRead == IF callerStr = Destroyed THEN ModCmds \cup {origCmd} ELSE {callerStr}

\* popen(cmd.c_str(), "r") returns a stream: a shell runs the command
PopenOk ==
    /\ tpc = "start"
    /\ \E c \in CmdRead : spawnedCmd' = c
    /\ spawnCount' = spawnCount + 1
    /\ pipeH' = "open"
    /\ tpc' = "read"
    /\ UNCHANGED <<callerStr, origCmd, callerVars, hstate, hexc, pendingExc, closeCount,
                   buffer, childVars, sink, sink0>>

\* the null check left out: the loop is entered with a null stream
PopenFailUnchecked ==
    /\ tpc = "start"
    /\ pipeH' = "null"
    /\ tpc' = "read"
    /\ UNCHANGED <<callerStr, origCmd, callerVars, hstate, hexc, pendingExc, closeCount,
                   spawnCount, spawnedCmd, buffer, childVars, sink, sink0>>

\* popen() returns NULL (no process, no pipe): FileSystemException is thrown,
\* the null unique_ptr runs no deleter, the exception is stored in the future
PopenFail ==
    /\ tpc = "start"
    /\ pipeH' = "null"
    /\ tpc' = "done"
    /\ hstate' = "Failed"
    /\ hexc' = "FileSystemException"
    /\ UNCHANGED <<callerStr, origCmd, callerVars, pendingExc, closeCount, spawnCount,
                   spawnedCmd, buffer, childVars, sink, sink0>>

\* fgets returns a chunk: the loop body is entered
FgetsChunk ==
    /\ tpc = "read"
    /\ pipe # <<>>
    /\ FgetsReady(pipe, outClosed)
    /\ buffer' = Append(FgetsData(pipe), NUL)
    /\ pipe' = SubSeq(pipe, FgetsLen(pipe) + 1, Len(pipe))
    /\ tpc' = "write"
    /\ UNCHANGED <<callerStr, origCmd, callerVars, hstate, hexc, pendingExc, pipeH,
                   closeCount, spawnCount, spawnedCmd, emitted, outClosed, exited, sink,
                   sink0>>

\* a read that gives up on an empty pipe while the child still holds it open
FgetsEofTimeout ==
    /\ tpc = "read"
    /\ pipe = <<>>
    /\ tpc' = "unwind"
    /\ pendingExc' = "none"
    /\ UNCHANGED <<callerStr, origCmd, callerVars, hstate, hexc, pipeH, closeCount,
                   spawnCount, spawnedCmd, buffer, childVars, sink, sink0>>

\* fgets returns nullptr at end-of-stream: the loop ends, the lambda returns
FgetsEof ==
    /\ tpc = "read"
    /\ pipe = <<>>
    /\ outClosed
    /\ tpc' = "unwind"
    /\ pendingExc' = "none"
    /\ UNCHANGED <<callerStr, origCmd, callerVars, hstate, hexc, pipeH, closeCount,
                   spawnCount, spawnedCmd, buffer, childVars, sink, sink0>>

\* ostr << buffer.data()
Write ==
    /\ tpc = "write"
    /\ sink' = sink \o CStr(buffer)
    /\ tpc' = "read"
    /\ UNCHANGED <<callerStr, origCmd, callerVars, hstate, hexc, pendingExc, pipeH,
                   closeCount, spawnCount, spawnedCmd, buffer, childVars, sink0>>

\* a raw FILE* in place of the unique_ptr: the exception skips pclose()
WriteThrowLeaks ==
    /\ tpc = "write"
    /\ tpc' = "done"
    /\ pendingExc' = "ios_failure"
    /\ hstate' = "Failed"
    /\ hexc' = "ios_failure"
    /\ UNCHANGED <<callerStr, origCmd, callerVars, pipeH, closeCount, spawnCount,
                   spawnedCmd, buffer, childVars, sink, sink0>>

\* ostr << buffer.data() raises std::ios_base::failure (a stream with
\* exceptions enabled whose buffer fails): the task's stack unwinds
WriteThrow ==
    /\ tpc = "write"
    /\ tpc' = "unwind"
    /\ pendingExc' = "ios_failure"
    /\ UNCHANGED <<callerStr, origCmd, callerVars, hstate, hexc, pipeH, closeCount,
                   spawnCount, spawnedCmd, buffer, childVars, sink, sink0>>

\* the exception in flight is swallowed
ResolveSwallow(exc) == "Completed"

\* shared state set once the lambda is left: value, or the exception in flight
Resolve(exc) == IF exc = "none" THEN "Completed" ELSE "Failed"

\* ~unique_ptr runs pclose(pipe), which closes the stream and waits for the
\* child to terminate; then the future is made ready
Pclose ==
    /\ tpc = "unwind"
    /\ pipeH = "open"
    /\ exited
    /\ pipeH' = "closed"
    /\ closeCount' = closeCount + 1
    /\ tpc' = "done"
    /\ hstate' = Resolve(pendingExc)
    /\ hexc' = pendingExc
    /\ UNCHANGED <<callerStr, origCmd, callerVars, pendingExc, spawnCount, spawnedCmd,
                   buffer, childVars, sink, sink0>>

TaskStep == PopenOk \/ PopenFail \/ FgetsChunk \/ FgetsEof \/ Write \/ WriteThrow \/ Pclose

\* The child writes the next byte of its output
Emit ==
    /\ spawnCount > 0
    /\ ~outClosed
    /\ emitted < Len(Output(spawnedCmd))
    /\ pipe' = Append(pipe, Output(spawnedCmd)[emitted + 1])
    /\ emitted' = emitted + 1
    /\ UNCHANGED <<callerStr, origCmd, callerVars, hstate, hexc, taskVars, outClosed,
                   exited, sink, sink0>>

\* The child closes its stdout (it is done, or it is ended from outside)
CloseOut ==
    /\ spawnCount > 0
    /\ ~outClosed
    /\ outClosed' = TRUE
    /\ UNCHANGED <<callerStr, origCmd, callerVars, hstate, hexc, taskVars, pipe, emitted,
                   exited, sink, sink0>>

\* The child terminates
Exit ==
    /\ outClosed
    /\ ~exited
    /\ exited' = TRUE
    /\ UNCHANGED <<callerStr, origCmd, callerVars, hstate, hexc, taskVars, pipe, emitted,
                   outClosed, sink, sink0>>

\* get() that returns normally whatever the shared state holds
GetOutcomeSwallow(st, exc) == "ok"

\* what std::future<void>::get() does with a ready shared state
GetOutcome(st, exc) == IF st = "Failed" THEN exc ELSE "ok"

\* future.wait(): returns once the shared state is ready, keeps the future valid
Wait ==
    /\ cpc = "holding"
    /\ valid
    /\ hstate \in {"Completed", "Failed"}
    /\ waits < MaxWaits
    /\ waits' = waits + 1
    /\ UNCHANGED <<callerStr, origCmd, cpc, valid, outcome1, outcome2, hstate, hexc,
                   taskVars, childVars, sink, sink0>>

\* future.get(): blocks until ready, returns or rethrows, releases the shared state
Get ==
    /\ cpc = "holding"
    /\ valid
    /\ hstate \in {"Completed", "Failed"}
    /\ outcome1' = GetOutcome(hstate, hexc)
    /\ valid' = FALSE
    /\ cpc' = "got"
    /\ UNCHANGED <<callerStr, origCmd, outcome2, waits, hstate, hexc, taskVars,
                   childVars, sink, sink0>>

\* outcomes of get() on a future whose valid() is false (undefined behaviour):
\* std::future_error(no_state) is thrown, or a null shared state is dereferenced
InvalidGet == {"future_error", "crash"}

\* a second get() that runs the task again (a deferred launch run per get)
GetAgainReruns ==
    /\ cpc = "got"
    /\ ~valid
    /\ outcome2 = "none"
    /\ outcome2' = outcome1
    /\ tpc' = "start"
    /\ UNCHANGED <<callerStr, origCmd, cpc, valid, outcome1, waits, hstate, hexc,
                   pendingExc, pipeH, closeCount, spawnCount, spawnedCmd, buffer,
                   childVars, sink, sink0>>

\* a second get() on the same future
GetAgain ==
    /\ cpc = "got"
    /\ ~valid
    /\ outcome2 = "none"
    /\ \E o \in InvalidGet : outcome2' = o
    /\ UNCHANGED <<callerStr, origCmd, cpc, valid, outcome1, waits, hstate, hexc,
                   taskVars, childVars, sink, sink0>>

Next ==
    \/ ExecuteAsync
    \/ ModifyStr
    \/ DestroyStr
    \/ PopenOk
    \/ PopenFail
    \/ FgetsChunk
    \/ FgetsEof
    \/ Write
    \/ WriteThrow
    \/ Pclose
    \/ Emit
    \/ CloseOut
    \/ Exit
    \/ Wait
    \/ Get
    \/ GetAgain

Spec == Init /\ [][Next]_vars

\* std::launch::async runs the task on a thread of its own, which the
\* scheduler keeps running while it has a step to take
FairSpec == Spec /\ WF_vars(TaskStep)
----------------------------------------------------------------------------
Resolved == hstate \in {"Completed", "Failed"}
WaitReturned == waits > 0 \/ cpc = "got"

\* C1: once a wait on the handle has returned normally, the sink holds what it
\* held before the call followed by exactly the text the child printed, in
\* order, whatever the line lengths are relative to the 128-byte buffer.
C1_SinkIsOutput ==
    (WaitReturned /\ hstate = "Completed" /\ NoNul(Produced)) => sink = sink0 \o Produced

\* two lines, each longer than the buffer, have been forwarded and awaited
C1_Witness ==
    /\ cpc = "got"
    /\ outcome1 = "ok"
    /\ Len(spawnedCmd.lens) = 2
    /\ Len(Produced) > 2 * BufSize
    /\ NoNul(Produced)
    /\ sink = sink0 \o Produced

\* C2: when popen returns null, the handle fails with FileSystemException, a
\* get() raises it, no child exists, the read loop is never entered and the
\* sink is what it was before the call; no write happens before the spawn.
C2_SpawnFailure ==
    /\ tpc = "start" => sink = sink0
    /\ pipeH = "null" =>
          /\ hstate = "Failed"
          /\ hexc = "FileSystemException"
          /\ tpc = "done"
          /\ spawnCount = 0
          /\ buffer = <<>>
          /\ sink = sink0
          /\ cpc = "got" => outcome1 = "FileSystemException"

\* popen failed with a non-empty sink and the caller has seen the error
C2_Witness ==
    /\ pipeH = "null"
    /\ cpc = "got"
    /\ outcome1 = "FileSystemException"
    /\ sink0 # <<>>
    /\ sink = sink0

\* C3 (as claimed): a command that names no existing program resolves the
\* handle with the spawn error and leaves the sink empty.
C3_MissingFails ==
    (spawnCount > 0 /\ spawnedCmd = Missing /\ tpc = "done") =>
        (hstate = "Failed" /\ sink = sink0)

\* C3 (amended): popen starts the interpreter whether or not the program
\* exists, so for a command naming no program the handle never fails: it
\* stays Pending until the shell has gone and then is Completed, and the sink
\* keeps its content.
C3_MissingCompletes ==
    (spawnCount > 0 /\ spawnedCmd = Missing) =>
        /\ sink = sink0
        /\ hstate \in {"Pending", "Completed"}
        /\ tpc = "done" => (hstate = "Completed" /\ hexc = "none")

\* the shell was given a missing program and the caller's get() returned
C3_Witness ==
    /\ spawnCount > 0
    /\ spawnedCmd = Missing
    /\ origCmd = Missing
    /\ cpc = "got"
    /\ outcome1 = "ok"

\* C4 (as claimed): the command the child runs is the caller's string as it
\* was when ExecuteAsync was called.
C4_CommandCopied == spawnCount > 0 => spawnedCmd = origCmd

\* the step in which ExecuteAsync returns the future
C5_ReturnStep ==
    (cpc = "init" /\ cpc' = "holding") =>
        (tpc' = "start" /\ hstate' = "Pending" /\ spawnCount' = 0 /\ outcome1' = "none")

\* where a failure is, and what get() makes of it
C5_FailureAtGet ==
    /\ outcome1 # "none" => cpc = "got"
    /\ (tpc = "done" /\ (pipeH = "null" \/ pendingExc # "none")) =>
           (hstate = "Failed" /\ hexc # "none")
    /\ (cpc = "got" /\ hstate = "Failed") => (outcome1 = hexc /\ outcome1 # "ok")

\* C5: the step that returns the future leaves the task unstarted and the
\* handle Pending, no failure reaches the caller except through get(), and a
\* failure stored by the task is what get() raises.
C5_LazyFailure == [][C5_ReturnStep]_vars /\ []C5_FailureAtGet

\* the future was returned, the task failed to spawn, get() raised that error
C5_Witness ==
    /\ cpc = "got"
    /\ hstate = "Failed"
    /\ pipeH = "null"
    /\ outcome1 = "FileSystemException"

\* one child at most; the state and the stored exception agree
C6_State ==
    /\ spawnCount <= 1
    /\ hstate = "Completed" => hexc = "none"
    /\ hstate = "Failed" => hexc # "none"
    /\ hstate \in {"NoHandle", "Pending"} => hexc = "none"

\* the only changes of the handle's state
C6_Step ==
    /\ Resolved => (hstate' = hstate /\ hexc' = hexc /\ spawnCount' = spawnCount)
    /\ hstate' # hstate =>
          \/ hstate = "NoHandle" /\ hstate' = "Pending"
          \/ hstate = "Pending" /\ hstate' \in {"Completed", "Failed"}

\* C6: at most one child per handle; the handle goes from Pending to
\* Completed or to Failed once and then never changes; Completed carries no
\* exception and Failed carries one.
C6_ResolvedOnce == []C6_State /\ [][C6_Step]_vars

\* a handle failed by a sink exception, seen after further steps
C6_Witness == hstate = "Failed" /\ hexc = "ios_failure" /\ spawnCount = 1 /\ cpc = "got"

\* C7 (as claimed): a second wait on the resolved handle returns the same
\* terminal outcome as the first.
C7_ReawaitSame == outcome2 # "none" => outcome2 = outcome1

\* what the first and the second get() deliver
C7_SecondGet ==
    /\ outcome1 # "none" => ~valid
    /\ outcome2 # "none" =>
          (outcome1 # "none" /\ outcome2 \notin {"ok", "FileSystemException", "ios_failure"})
    /\ waits > 0 => Resolved

\* a step of wait() or get()
C7_AwaitStep ==
    (outcome2' # outcome2 \/ waits' # waits \/ outcome1' # outcome1) =>
        /\ spawnCount' = spawnCount
        /\ sink' = sink
        /\ hstate' = hstate
        /\ tpc' = tpc
        /\ Resolved

\* C7 (amended): get() delivers the outcome once and leaves the future
\* invalid; a second get() does not return that outcome (future_error or a
\* crash); wait() may be repeated before get(); no await spawns a process,
\* writes to the sink or changes the handle's state.
C7_Reawait == []C7_SecondGet /\ [][C7_AwaitStep]_vars

\* two wait()s, a get() that raised the spawn error, and a second get()
C7_Witness ==
    /\ waits = 2
    /\ outcome1 = "FileSystemException"
    /\ outcome2 = "future_error"

\* C8: once the handle is resolved the stream is released: never left open,
\* closed exactly once when popen gave one (which also waits for the child),
\* never closed when popen gave none.
C8_Released ==
    /\ closeCount <= spawnCount
    /\ closeCount <= 1
    /\ pipeH = "closed" <=> closeCount = 1
    /\ Resolved =>
          /\ pipeH \in {"null", "closed"}
          /\ pipeH = "null" => (closeCount = 0 /\ spawnCount = 0)
          /\ pipeH = "closed" => (closeCount = 1 /\ spawnCount = 1 /\ exited)

\* the sink raised in the middle of the output and the stream was closed
C8_Witness ==
    /\ hstate = "Failed"
    /\ hexc = "ios_failure"
    /\ pipeH = "closed"
    /\ closeCount = 1
    /\ emitted > Len(sink) - Len(sink0)

\* C9 (as claimed): whenever the loop is back at fgets, the sink holds exactly
\* the bytes read from the pipe so far, a zero byte included.
C9_Verbatim == tpc = "read" => sink = sink0 \o Consumed

\* C10 (as claimed): a handle leaves Pending only by spawn failure or by
\* end-of-stream on the child's pipe (and then it is Completed).
C10_OnlySpawnFailOrEof ==
    tpc = "done" => (pipeH = "null" \/ (hstate = "Completed" /\ pendingExc = "none"))

\* how a resolved handle got there
C10_Paths ==
    /\ hstate = "Failed" =>
          \/ pipeH = "null" /\ hexc = "FileSystemException"
          \/ pipeH = "closed" /\ hexc = "ios_failure" /\ exited /\ Consumed # <<>>
    /\ hstate = "Completed" => (pipe = <<>> /\ outClosed /\ exited /\ pipeH = "closed")
    /\ (spawnCount > 0 /\ ~outClosed) => hstate = "Pending"

\* C10 (amended): a handle leaves Pending by spawn failure, by end-of-stream,
\* or by an exception of the sink's operator<<; there is no cancel or timeout:
\* with a child whose stdout is open the handle is Pending, Completed means
\* the pipe was drained to end-of-stream and the child waited for, and once
\* the child has terminated the handle resolves, Completed unless a write to
\* the sink raised.
C10_NoCancel ==
    /\ []C10_Paths
    /\ exited ~> Resolved

\* a child that printed more than a buffer has terminated and the handle is
\* Completed
C10_Witness == hstate = "Completed" /\ exited /\ Len(Produced) > BufSize
====
